---- MODULE Spec2Model ----
(***************************************************************************)
(* Model of pkg/trait/deployer.go: the deployer trait registers a deferred *)
(* post-action that either replaces the generated resources or patches     *)
(* them with a JSON merge patch built by mergeFromPositivePatch.Data.      *)
(*                                                                         *)
(* JSON documents are functions from keys to tagged values                 *)
(*   [t |-> "null"], [t |-> "num", v |-> n], [t |-> "str", v |-> s],       *)
(*   [t |-> "obj", v |-> document].                                        *)
(* A runtime.Object is a typed Go struct: a record with the fields         *)
(*   name (string), replicas (pointer to int), status (pointer to a        *)
(*   struct with the int field observedGeneration), labels (a map from     *)
(*   string to string), every field tagged omitempty.  A pointer is a      *)
(*   sequence of length 0 (nil) or 1.                                      *)
(***************************************************************************)
EXTENDS Integers, Sequences, FiniteSets, TLC

VARIABLES dFrom, dTo, dStage, dPatch, dLive, dBefore, dRound

VARIABLES phase, applicable, applyErr, PostActions, Resources, store, pc, qi,
          items, idx, result, ops, pass

\* what the pass remembers of its course: the error Configure returned, the
\* desired set as it was when Apply returned, the store as it was when the
\* pass began, and the previous pass
VARIABLES configureErr, atApply, startStore, prev

dvars == <<dFrom, dTo, dStage, dPatch, dLive, dBefore, dRound>>
hvars == <<configureErr, atApply, startStore, prev>>
pvars == <<phase, applicable, applyErr, PostActions, Resources, store, pc, qi,
           items, idx, result, ops, pass, hvars>>
vars == <<dvars, pvars>>

\* ---------------------------------------------------------------- bounds
MaxLabelKeys == 2
MaxRound == 2
MaxRes == 3
MaxPass == 2
MaxChanges == 1

\* ------------------------------------------------------ sample field values
LabelKeyNames == <<"k1", "k2", "k3">>
LabelKeys == {LabelKeyNames[i] : i \in 1..MaxLabelKeys}
LabelValues == {"", "a"}
NameValues == {"", "svc"}
ReplicaValues == {3, 5}
GenerationValues == {0, 5}

\* ------------------------------------------------------------ JSON values
JNull == [t |-> "null"]
JNum(n) == [t |-> "num", v |-> n]
JStr(s) == [t |-> "str", v |-> s]
JObj(d) == [t |-> "obj", v |-> d]
EmptyDoc == [k \in {} |-> JNull]

IsScalar(x) == x.t \in {"num", "str"}

\* ------------------------------------------------------------ Go objects
StrMaps == UNION {[K -> LabelValues] : K \in SUBSET LabelKeys}
StatusStructs == [observedGeneration : GenerationValues]
ResourceObjects ==
    [name : NameValues,
     replicas : {<<>>} \cup {<<n>> : n \in ReplicaValues},
     status : {<<>>} \cup {<<s>> : s \in StatusStructs},
     labels : StrMaps]

ZeroStatus == [observedGeneration |-> 0]
ZeroResource == [name |-> "", replicas |-> <<>>, status |-> <<>>, labels |-> EmptyDoc]

\* obj.DeepCopyObject(): a value copy
DeepCopyObject(obj) == obj

\* json.Marshal of the status struct (omitempty drops the zero int)
MarshalStatus(s) ==
    [k \in {f \in {"observedGeneration"} : s.observedGeneration # 0}
        |-> JNum(s.observedGeneration)]

\* json.Marshal of a string map
MarshalStrMap(m) == [k \in DOMAIN m |-> JStr(m[k])]

\* json.Marshal of a resource: omitempty drops "", nil pointers, empty maps
Marshal(obj) ==
    LET keys == (IF obj.name # "" THEN {"name"} ELSE {})
                \cup (IF obj.replicas # <<>> THEN {"replicas"} ELSE {})
                \cup (IF obj.status # <<>> THEN {"status"} ELSE {})
                \cup (IF DOMAIN obj.labels # {} THEN {"labels"} ELSE {})
    IN [k \in keys |->
          CASE k = "name" -> JStr(obj.name)
            [] k = "replicas" -> JNum(obj.replicas[1])
            [] k = "status" -> JObj(MarshalStatus(obj.status[1]))
            [] k = "labels" -> JObj(MarshalStrMap(obj.labels))]

\* the JSON types json.Unmarshal accepts for each field of the structs
StatusFieldTypes == [observedGeneration |-> {"num", "null"}]
ResourceFieldTypes ==
    [name |-> {"str", "null"}, replicas |-> {"num", "null"},
     status |-> {"obj", "null"}, labels |-> {"obj", "null"}]

\* json.Unmarshal returns an error when a value does not fit its field
UnmarshalFails(doc) ==
    \/ \E k \in DOMAIN doc \cap DOMAIN ResourceFieldTypes :
           doc[k].t \notin ResourceFieldTypes[k]
    \/ /\ "status" \in DOMAIN doc
       /\ doc["status"].t = "obj"
       /\ \E k \in DOMAIN doc["status"].v \cap DOMAIN StatusFieldTypes :
              doc["status"].v[k].t \notin StatusFieldTypes[k]
    \/ /\ "labels" \in DOMAIN doc
       /\ doc["labels"].t = "obj"
       /\ \E k \in DOMAIN doc["labels"].v : doc["labels"].v[k].t \notin {"str", "null"}

\* json.Unmarshal into the status struct: null leaves an int as it is
UnmarshalStatus(doc, s) ==
    [observedGeneration |->
        IF "observedGeneration" \in DOMAIN doc /\ doc["observedGeneration"].t = "num"
        THEN doc["observedGeneration"].v ELSE s.observedGeneration]

\* json.Unmarshal into a string map: the map is reused, each key of the
\* document is decoded into a fresh zero element and stored, so null stores ""
UnmarshalStrMap(doc, m) ==
    [k \in DOMAIN m \cup DOMAIN doc |->
        IF k \in DOMAIN doc
        THEN (IF doc[k].t = "str" THEN doc[k].v ELSE "")
        ELSE m[k]]

\* json.Unmarshal(doc, out): keys absent from doc leave the field alone, null
\* clears pointers and maps and is ignored by strings and ints, an object is
\* decoded into the existing struct (allocated when the pointer is nil)
Unmarshal(doc, out) ==
    [name |-> IF "name" \in DOMAIN doc /\ doc["name"].t = "str"
              THEN doc["name"].v ELSE out.name,
     replicas |-> IF "replicas" \notin DOMAIN doc THEN out.replicas
                  ELSE IF doc["replicas"].t = "num" THEN <<doc["replicas"].v>>
                  ELSE <<>>,
     status |-> IF "status" \notin DOMAIN doc THEN out.status
                ELSE IF doc["status"].t = "obj"
                THEN <<UnmarshalStatus(doc["status"].v,
                          IF out.status = <<>> THEN ZeroStatus ELSE out.status[1])>>
                ELSE <<>>,
     labels |-> IF "labels" \notin DOMAIN doc THEN out.labels
                ELSE IF doc["labels"].t = "obj"
                THEN UnmarshalStrMap(doc["labels"].v, out.labels)
                ELSE EmptyDoc]

\* ------------------------------------------- jsonpatch.CreateMergePatch
RECURSIVE getDiff(_, _)
getDiff(a, b) ==
    LET deleted == DOMAIN a \ DOMAIN b
        changed == {k \in DOMAIN b :
                      \/ k \notin DOMAIN a
                      \/ a[k].t # b[k].t
                      \/ a[k].t = "obj" /\ DOMAIN getDiff(a[k].v, b[k].v) # {}
                      \/ IsScalar(a[k]) /\ a[k] # b[k]}
    IN [k \in changed \cup deleted |->
          IF k \in deleted THEN JNull
          ELSE IF k \in DOMAIN a /\ a[k].t = "obj" /\ b[k].t = "obj"
          THEN JObj(getDiff(a[k].v, b[k].v))
          ELSE b[k]]

CreateMergePatch(originalJSON, modifiedJSON) == getDiff(originalJSON, modifiedJSON)

\* ------------------------------------------- mergeFromPositivePatch.Data
\* variant: the raw merge patch is returned, the work-around is left out
DataRaw(from, obj) ==
    [err |-> FALSE, data |-> CreateMergePatch(Marshal(from), Marshal(obj))]

\* variant: the arguments of CreateMergePatch are swapped
DataSwapped(from, obj) ==
    LET patch == CreateMergePatch(Marshal(obj), Marshal(from))
    IN [err |-> UnmarshalFails(patch),
        data |-> Marshal(Unmarshal(patch, DeepCopyObject(obj)))]

Data(from, obj) ==
    LET originalJSON == Marshal(from)
        modifiedJSON == Marshal(obj)
        patch == CreateMergePatch(originalJSON, modifiedJSON)
        out == DeepCopyObject(obj)
    IN IF UnmarshalFails(patch)
       THEN [err |-> TRUE, data |-> EmptyDoc]
       ELSE [err |-> FALSE, data |-> Marshal(Unmarshal(patch, out))]

\* variant: out is obj itself, no copy is taken
OutIsObj(heap) == [ref |-> "obj", heap |-> heap]

\* out := obj.DeepCopyObject(): out is a new object with the content of obj
OutIsCopy(heap) == [ref |-> "out", heap |-> [heap EXCEPT !["out"] = heap["obj"]]]

\* the objects s.from, obj and out when Data returns: json.Marshal reads,
\* json.Unmarshal writes into out
DataObjects(from, obj) ==
    LET heap == [from |-> from, obj |-> obj, out |-> ZeroResource]
        patch == CreateMergePatch(Marshal(heap["from"]), Marshal(heap["obj"]))
        copy == OutIsCopy(heap)
    IN IF UnmarshalFails(patch) THEN copy.heap
       ELSE [copy.heap EXCEPT ![copy.ref] = Unmarshal(patch, @)]

\* ------------------------- the store applying a patch of MergePatchType
RECURSIVE MergePatch(_, _)
MergePatch(target, patch) ==
    LET removed == {k \in DOMAIN patch : patch[k].t = "null"}
    IN [k \in (DOMAIN target \cup DOMAIN patch) \ removed |->
          IF k \notin DOMAIN patch THEN target[k]
          ELSE IF patch[k].t = "obj"
          THEN JObj(MergePatch(IF k \in DOMAIN target /\ target[k].t = "obj"
                               THEN target[k].v ELSE EmptyDoc, patch[k].v))
          ELSE patch[k]]

\* the store hands the live document back as a typed object
Decode(doc) == Unmarshal(doc, ZeroResource)

\* ============================ the reconciliation pass ====================
Phases == {"Initialization", "Deploying", "Running", "Error", "Unrecognised"}

\* errors: a kind and the stack of contexts added by errors.Wrap
NoResult == [kind |-> "pending", wrap |-> <<>>]
NilErr == [kind |-> "nil", wrap |-> <<>>]
Err(kind) == [kind |-> kind, wrap |-> <<>>]
Wrap(err, msg) == [err EXCEPT !.wrap = <<msg>> \o @]

ReplaceTag == "error during replace resource"
PatchTag == "error during patch resource"

\* desired resources generated by the traits, and documents held by the store
DesiredBodies ==
    {[name |-> "svc", replicas |-> <<5>>, status |-> <<>>, labels |-> EmptyDoc],
     [name |-> "svc", replicas |-> <<3>>, status |-> <<>>,
      labels |-> [k \in {LabelKeyNames[1]} |-> "a"]]}
LiveBodies ==
    {[name |-> "svc", replicas |-> <<3>>,
      status |-> <<[observedGeneration |-> 5]>>, labels |-> EmptyDoc],
     [name |-> "svc", replicas |-> <<5>>, status |-> <<>>,
      labels |-> [k \in LabelKeys |-> "a"]]}
Ids == 1..MaxRes
DesiredSets ==
    UNION {[1..n -> DesiredBodies] : n \in 0..MaxRes}
ItemsOf(bodies) == [i \in DOMAIN bodies |-> [id |-> i, obj |-> bodies[i]]]
\* the document the store holds at first for an identity, if it holds one
LiveDocOf(id) ==
    Marshal(CHOOSE b \in LiveBodies : (b.status # <<>>) <=> (id % 2 = 1))
Stores == {[k \in K |-> LiveDocOf(k)] : K \in SUBSET Ids}

\* Environment.IntegrationInPhase: the phase is one of the given ones
IntegrationInPhase(ph, phases) == ph \in phases

\* variant: Running is missing from the phases Configure lists
ConfigureWithoutRunning(ph) ==
    [ok |-> IntegrationInPhase(ph, {"Initialization", "Deploying"}),
     err |-> NilErr]

\* e.IntegrationInPhase(Initialization, Deploying, Running), nil
Configure(ph) ==
    [ok |-> IntegrationInPhase(ph, {"Initialization", "Deploying", "Running"}),
     err |-> NilErr]

\* variant: the post-action is put at the head of the queue
ApplyPrepends(ph, queue) ==
    CASE ph \in {"Initialization", "Deploying"} -> <<"replace">> \o queue
      [] ph = "Running" -> <<"patch">> \o queue
      [] OTHER -> queue

\* variant: the case of Deploying falls into the patch branch
ApplyDeployingPatches(ph, queue) ==
    CASE ph = "Initialization" -> Append(queue, "replace")
      [] ph \in {"Deploying", "Running"} -> Append(queue, "patch")
      [] OTHER -> queue

\* the switch of Apply: the post-action appended for a phase
Apply(ph, queue) ==
    CASE ph \in {"Initialization", "Deploying"} -> Append(queue, "replace")
      [] ph = "Running" -> Append(queue, "patch")
      [] OTHER -> queue

\* variant: the error of ReplaceResources is returned as it is
ReplacerReturnBare(err) == err

\* the Replacer closure returns the error of ReplaceResources wrapped
ReplacerReturn(err) == Wrap(err, ReplaceTag)

\* variant: every error of the Applier closure is wrapped
ApplierReturnWrapAll(step, err) == Wrap(err, PatchTag)

\* the Applier closure returns the errors of ObjectKeyFromObject and Get as
\* they are and the error of Patch wrapped
ApplierReturn(step, err) ==
    IF step = "applyPatch" THEN Wrap(err, PatchTag) ELSE err

\* a call on a collaborator and its outcome: "ok" or the kind of the error
Call(op, id, res) == [op |-> op, id |-> id, res |-> res]

\* the record of a pass: its phase, the set its post-action ran over, the
\* error it ended with, the store when it began and when it ended
NoPass == [phase |-> "", items |-> <<>>, result |-> NoResult,
           start |-> EmptyDoc, end |-> EmptyDoc]

PassIdle ==
    /\ configureErr = NoResult
    /\ atApply = <<>>
    /\ startStore = EmptyDoc
    /\ prev = NoPass
    /\ phase = "Error"
    /\ applicable = FALSE
    /\ applyErr = NoResult
    /\ PostActions = <<>>
    /\ Resources = <<>>
    /\ store = EmptyDoc
    /\ pc = "idle"
    /\ qi = 0
    /\ items = <<>>
    /\ idx = 0
    /\ result = NoResult
    /\ ops = <<>>
    /\ pass = 0

DataIdle ==
    /\ dFrom = ZeroResource
    /\ dTo = ZeroResource
    /\ dStage = "idle"
    /\ dPatch = EmptyDoc
    /\ dLive = EmptyDoc
    /\ dBefore = EmptyDoc
    /\ dRound = 0

PassInit ==
    /\ DataIdle
    /\ configureErr = NoResult
    /\ atApply = <<>>
    /\ prev = NoPass
    /\ phase \in Phases
    /\ applicable = FALSE
    /\ applyErr = NoResult
    /\ PostActions \in {<<>>, <<"other">>}
    /\ Resources \in {ItemsOf(b) : b \in DesiredSets}
    /\ store \in Stores
    /\ pc = "configure"
    /\ qi = 0
    /\ items = <<>>
    /\ idx = 0
    /\ result = NoResult
    /\ ops = <<>>
    /\ pass = 1

Init ==
    /\ PassInit
    /\ startStore = EmptyDoc

\* the number of changes later traits made to the desired set since Apply
Changes ==
    (Len(Resources) - Len(atApply))
    + Cardinality({n \in DOMAIN atApply : Resources[n] # atApply[n]})

\* deployerTrait.Configure
ConfigureTrait ==
    /\ pc = "configure"
    /\ applicable' = Configure(phase).ok
    /\ configureErr' = Configure(phase).err
    /\ pc' = "apply"
    /\ UNCHANGED <<phase, applyErr, PostActions, Resources, store, qi, items,
                   idx, result, ops, pass, atApply, startStore, prev, dvars>>

\* deployerTrait.Apply
ApplyTrait ==
    /\ pc = "apply"
    /\ PostActions' = Apply(phase, PostActions)
    /\ applyErr' = NilErr
    /\ atApply' = Resources
    /\ pc' = "generate"
    /\ UNCHANGED <<phase, applicable, Resources, store, qi, items, idx, result,
                   ops, pass, configureErr, startStore, prev, dvars>>

\* a later trait adds a resource to env.Resources
AddResource ==
    /\ pc = "generate"
    /\ Changes < MaxChanges
    /\ Len(Resources) < MaxRes
    /\ \E b \in DesiredBodies :
          Resources' = Append(Resources, [id |-> Len(Resources) + 1, obj |-> b])
    /\ UNCHANGED <<phase, applicable, applyErr, PostActions, store, pc, qi,
                   items, idx, result, ops, pass, hvars, dvars>>

\* a later trait changes a resource of env.Resources
ChangeResource ==
    /\ pc = "generate"
    /\ Changes < MaxChanges
    /\ \E n \in DOMAIN Resources : \E b \in DesiredBodies \ {Resources[n].obj} :
          Resources' = [Resources EXCEPT ![n].obj = b]
    /\ UNCHANGED <<phase, applicable, applyErr, PostActions, store, pc, qi,
                   items, idx, result, ops, pass, hvars, dvars>>

\* the driver starts to run the post-actions
StartDrain ==
    /\ pc = "generate"
    /\ pc' = "drain"
    /\ qi' = 1
    /\ UNCHANGED <<phase, applicable, applyErr, PostActions, Resources, store,
                   items, idx, result, ops, pass, hvars, dvars>>

\* every post-action returned nil
DrainDone ==
    /\ pc = "drain"
    /\ qi > Len(PostActions)
    /\ pc' = "done"
    /\ result' = NilErr
    /\ UNCHANGED <<phase, applicable, applyErr, PostActions, Resources, store,
                   qi, items, idx, ops, pass, hvars, dvars>>

\* a post-action of another trait
RunOther ==
    /\ pc = "drain"
    /\ qi <= Len(PostActions)
    /\ PostActions[qi] = "other"
    /\ qi' = qi + 1
    /\ UNCHANGED <<phase, applicable, applyErr, PostActions, Resources, store,
                   pc, items, idx, result, ops, pass, hvars, dvars>>

\* variant: the Replacer works on the set as it was when Apply returned
StartReplacerAtApply ==
    /\ pc = "drain"
    /\ qi <= Len(PostActions)
    /\ PostActions[qi] = "replace"
    /\ pc' = "replacing"
    /\ items' = atApply
    /\ idx' = 1
    /\ UNCHANGED <<phase, applicable, applyErr, PostActions, Resources, store,
                   qi, result, ops, pass, hvars, dvars>>

\* the Replacer closure is called: env.Resources.Items()
StartReplacer ==
    /\ pc = "drain"
    /\ qi <= Len(PostActions)
    /\ PostActions[qi] = "replace"
    /\ pc' = "replacing"
    /\ items' = Resources
    /\ idx' = 1
    /\ UNCHANGED <<phase, applicable, applyErr, PostActions, Resources, store,
                   qi, result, ops, pass, hvars, dvars>>

\* kubernetes.ReplaceResources: one resource
ReplaceStep ==
    /\ pc = "replacing"
    /\ idx <= Len(items)
    /\ \E fault \in {"none", "Transport"} :
          IF fault = "none"
          THEN /\ store' = [k \in DOMAIN store \cup {items[idx].id} |->
                              IF k = items[idx].id THEN Marshal(items[idx].obj)
                              ELSE store[k]]
               /\ ops' = Append(ops, Call("createOrUpdate", items[idx].id, "ok"))
               /\ idx' = idx + 1
               /\ UNCHANGED <<pc, result>>
          ELSE /\ ops' = Append(ops, Call("createOrUpdate", items[idx].id, fault))
               /\ result' = ReplacerReturn(Err(fault))
               /\ pc' = "done"
               /\ UNCHANGED <<store, idx>>
    /\ UNCHANGED <<phase, applicable, applyErr, PostActions, Resources, qi,
                   items, pass, hvars, dvars>>

\* the Replacer closure returns nil
ReplacerDone ==
    /\ pc = "replacing"
    /\ idx > Len(items)
    /\ pc' = "drain"
    /\ qi' = qi + 1
    /\ UNCHANGED <<phase, applicable, applyErr, PostActions, Resources, store,
                   items, idx, result, ops, pass, hvars, dvars>>

\* the Applier closure is called: env.Resources.Items()
StartApplier ==
    /\ pc = "drain"
    /\ qi <= Len(PostActions)
    /\ PostActions[qi] = "patch"
    /\ pc' = "patching"
    /\ items' = Resources
    /\ idx' = 1
    /\ UNCHANGED <<phase, applicable, applyErr, PostActions, Resources, store,
                   qi, result, ops, pass, hvars, dvars>>

\* the calls one iteration of the Applier loop makes for a fault
PatchCalls(id, fault) ==
    CASE fault = "Identity" -> <<Call("key", id, fault)>>
      [] fault \in {"NotFound", "GetTransport"} ->
            <<Call("key", id, "ok"), Call("getLive", id, fault)>>
      [] OTHER ->
            <<Call("key", id, "ok"), Call("getLive", id, "ok"),
              Call("applyPatch", id, IF fault = "none" THEN "ok" ELSE fault)>>

\* the step of the Applier loop at which a fault shows
FaultStep(fault) ==
    CASE fault = "Identity" -> "key"
      [] fault \in {"NotFound", "GetTransport"} -> "getLive"
      [] OTHER -> "applyPatch"

\* the fault of one iteration: injected, or the ones the state forces
ActualFault(id, obj, injected) ==
    IF injected = "Identity" THEN injected
    ELSE IF injected = "GetTransport" THEN injected
    ELSE IF id \notin DOMAIN store THEN "NotFound"
    ELSE IF Data(Decode(store[id]), obj).err THEN "Serialization"
    ELSE injected

\* variant: the live object is fetched once, for the first resource, and
\* every patch is computed against it
PatchStepStale ==
    /\ pc = "patching"
    /\ idx <= Len(items)
    /\ \E injected \in {"none", "Identity", "GetTransport", "Serialization",
                        "PatchTransport"} :
          LET id == items[idx].id
              resource == items[idx].obj
              fault == ActualFault(id, resource, injected)
          IN /\ ops' = ops \o PatchCalls(id, fault)
             /\ IF fault = "none"
                THEN /\ store' = [store EXCEPT ![id] =
                            MergePatch(@, Data(Decode(store[items[1].id]),
                                               resource).data)]
                     /\ idx' = idx + 1
                     /\ UNCHANGED <<pc, result>>
                ELSE /\ result' = ApplierReturn(FaultStep(fault), Err(fault))
                     /\ pc' = "done"
                     /\ UNCHANGED <<store, idx>>
    /\ UNCHANGED <<phase, applicable, applyErr, PostActions, Resources, qi,
                   items, pass, hvars, dvars>>

\* variant: an error of an iteration is dropped and the loop goes on
PatchStepNoAbort ==
    /\ pc = "patching"
    /\ idx <= Len(items)
    /\ \E injected \in {"none", "Identity", "GetTransport", "Serialization",
                        "PatchTransport"} :
          LET id == items[idx].id
              resource == items[idx].obj
              fault == ActualFault(id, resource, injected)
          IN /\ ops' = ops \o PatchCalls(id, fault)
             /\ store' = IF fault = "none"
                         THEN [store EXCEPT ![id] =
                                 MergePatch(@, Data(Decode(@), resource).data)]
                         ELSE store
             /\ idx' = idx + 1
             /\ UNCHANGED <<pc, result>>
    /\ UNCHANGED <<phase, applicable, applyErr, PostActions, Resources, qi,
                   items, pass, hvars, dvars>>

\* variant: a resource that is not found is created and the loop goes on
PatchStepCreates ==
    /\ pc = "patching"
    /\ idx <= Len(items)
    /\ \E injected \in {"none", "Identity", "GetTransport", "Serialization",
                        "PatchTransport"} :
          LET id == items[idx].id
              resource == items[idx].obj
              fault == ActualFault(id, resource, injected)
          IN IF fault = "NotFound"
             THEN /\ ops' = ops \o PatchCalls(id, fault)
                            \o <<Call("createOrUpdate", id, "ok")>>
                  /\ store' = [k \in DOMAIN store \cup {id} |->
                                 IF k = id THEN Marshal(resource) ELSE store[k]]
                  /\ idx' = idx + 1
                  /\ UNCHANGED <<pc, result>>
             ELSE /\ ops' = ops \o PatchCalls(id, fault)
                  /\ IF fault = "none"
                     THEN /\ store' = [store EXCEPT ![id] =
                                 MergePatch(@, Data(Decode(@), resource).data)]
                          /\ idx' = idx + 1
                          /\ UNCHANGED <<pc, result>>
                     ELSE /\ result' = ApplierReturn(FaultStep(fault), Err(fault))
                          /\ pc' = "done"
                          /\ UNCHANGED <<store, idx>>
    /\ UNCHANGED <<phase, applicable, applyErr, PostActions, Resources, qi,
                   items, pass, hvars, dvars>>

\* one iteration of the Applier loop
PatchStep ==
    /\ pc = "patching"
    /\ idx <= Len(items)
    /\ \E injected \in {"none", "Identity", "GetTransport", "Serialization",
                        "PatchTransport"} :
          LET id == items[idx].id
              resource == items[idx].obj
              fault == ActualFault(id, resource, injected)
          IN /\ ops' = ops \o PatchCalls(id, fault)
             /\ IF fault = "none"
                THEN /\ store' = [store EXCEPT ![id] =
                            MergePatch(@, Data(Decode(@), resource).data)]
                     /\ idx' = idx + 1
                     /\ UNCHANGED <<pc, result>>
                ELSE /\ result' = ApplierReturn(FaultStep(fault), Err(fault))
                     /\ pc' = "done"
                     /\ UNCHANGED <<store, idx>>
    /\ UNCHANGED <<phase, applicable, applyErr, PostActions, Resources, qi,
                   items, pass, hvars, dvars>>

\* the Applier closure returns nil
ApplierDone ==
    /\ pc = "patching"
    /\ idx > Len(items)
    /\ pc' = "drain"
    /\ qi' = qi + 1
    /\ UNCHANGED <<phase, applicable, applyErr, PostActions, Resources, store,
                   items, idx, result, ops, pass, hvars, dvars>>

\* the outer driver reconciles again: a new Environment, the same store
NewPass ==
    /\ pc = "done"
    /\ pass < MaxPass
    /\ pass' = pass + 1
    /\ phase' \in Phases
    /\ applicable' = FALSE
    /\ applyErr' = NoResult
    /\ PostActions' = <<>>
    /\ pc' = "configure"
    /\ qi' = 0
    /\ items' = <<>>
    /\ idx' = 0
    /\ result' = NoResult
    /\ ops' = <<>>
    /\ configureErr' = NoResult
    /\ atApply' = <<>>
    /\ UNCHANGED <<Resources, store, startStore, prev, dvars>>

Next ==
    \/ ConfigureTrait \/ ApplyTrait \/ AddResource \/ ChangeResource
    \/ StartDrain
    \/ DrainDone \/ RunOther \/ StartReplacer \/ ReplaceStep \/ ReplacerDone
    \/ StartApplier \/ PatchStep \/ ApplierDone \/ NewPass

Spec == Init /\ [][Next]_vars

\* ============ the pass invoked again over the same desired set ===========
RepeatInit ==
    /\ PassInit
    /\ startStore = store

\* the outer driver invokes the pass again: the entity is in the same phase
\* or has reached Running, the traits generate the same desired set
RepeatPass ==
    /\ pc = "done"
    /\ pass < MaxPass
    /\ pass' = pass + 1
    /\ phase' \in {phase, "Running"}
    /\ applicable' = FALSE
    /\ applyErr' = NoResult
    /\ PostActions' = <<>>
    /\ pc' = "configure"
    /\ qi' = 0
    /\ items' = <<>>
    /\ idx' = 0
    /\ result' = NoResult
    /\ ops' = <<>>
    /\ configureErr' = NoResult
    /\ atApply' = <<>>
    /\ startStore' = store
    /\ prev' = [phase |-> phase, items |-> items, result |-> result,
                start |-> startStore, end |-> store]
    /\ UNCHANGED <<Resources, store, dvars>>

RepeatNext ==
    \/ ConfigureTrait \/ ApplyTrait \/ StartDrain
    \/ DrainDone \/ RunOther \/ StartReplacer \/ ReplaceStep \/ ReplacerDone
    \/ StartApplier \/ PatchStep \/ ApplierDone \/ RepeatPass

RepeatSpec == RepeatInit /\ [][RepeatNext]_vars

\* =================== specification of the patch computation ==============

DInit ==
    /\ dFrom \in ResourceObjects
    /\ dTo \in ResourceObjects
    /\ dStage = "fetched"
    /\ dPatch = EmptyDoc
    /\ dLive = Marshal(dFrom)
    /\ dBefore = Marshal(dFrom)
    /\ dRound = 1
    /\ PassIdle

\* Patch calls Data(resource) on mergeFrom(object)
DCompute ==
    /\ dStage = "fetched"
    /\ ~Data(dFrom, dTo).err
    /\ dPatch' = Data(dFrom, dTo).data
    /\ dFrom' = DataObjects(dFrom, dTo)["from"]
    /\ dTo' = DataObjects(dFrom, dTo)["obj"]
    /\ dStage' = "computed"
    /\ UNCHANGED <<dLive, dBefore, dRound, pvars>>

\* the store folds the patch into the live document
DApply ==
    /\ dStage = "computed"
    /\ dBefore' = dLive
    /\ dLive' = MergePatch(dLive, dPatch)
    /\ dStage' = "applied"
    /\ UNCHANGED <<dFrom, dTo, dPatch, dRound, pvars>>

\* the next pass fetches the live document again
DRefetch ==
    /\ dStage = "applied"
    /\ dRound < MaxRound
    /\ dFrom' = Decode(dLive)
    /\ dStage' = "fetched"
    /\ dRound' = dRound + 1
    /\ UNCHANGED <<dTo, dPatch, dLive, dBefore, pvars>>

DNext == DCompute \/ DApply \/ DRefetch

DataSpec == DInit /\ [][DNext]_vars

\* ================================ properties =============================
RECURSIVE Paths(_)
\* the key paths of a document, inner objects included
Paths(d) ==
    UNION {{<<k>>} \cup (IF d[k].t = "obj"
                          THEN {<<k>> \o p : p \in Paths(d[k].v)} ELSE {})
           : k \in DOMAIN d}

RECURSIVE ValueAt(_, _)
\* the value of a document at one of its key paths
ValueAt(d, p) ==
    IF Len(p) = 1 THEN d[p[1]] ELSE ValueAt(d[p[1]].v, Tail(p))

\* the document holds a null marker somewhere
HasNull(d) == \E p \in Paths(d) : ValueAt(d, p).t = "null"

RECURSIVE Contains(_, _)
\* every field the document d sets is in l with the same value
Contains(d, l) ==
    \A k \in DOMAIN d :
        /\ k \in DOMAIN l
        /\ d[k].t = l[k].t
        /\ IF d[k].t = "obj" THEN Contains(d[k].v, l[k].v) ELSE d[k] = l[k]

ExampleLive ==
    [name |-> "svc", replicas |-> <<3>>,
     status |-> <<[observedGeneration |-> 5]>>, labels |-> EmptyDoc]
ExampleDesired ==
    [name |-> "svc", replicas |-> <<5>>, status |-> <<>>, labels |-> EmptyDoc]

\* C1 (Positivity): the patch returned by Data holds no null marker, and the
\* live document after the patch is applied still has every key path it had
\* before that the desired object does not mention.
Positivity ==
    /\ dStage \in {"computed", "applied"} => ~HasNull(dPatch)
    /\ dStage = "applied" =>
          \A p \in Paths(dBefore) \ Paths(Marshal(dTo)) : p \in Paths(dLive)

\* the example of the specification: status is in the live object only, the
\* raw merge patch asks for its deletion, and it is still there afterwards
PositivityWitness ==
    /\ dStage = "applied"
    /\ dRound = 1
    /\ dFrom = ExampleLive
    /\ dTo = ExampleDesired
    /\ HasNull(CreateMergePatch(dBefore, Marshal(dTo)))
    /\ <<"status", "observedGeneration">> \in Paths(dLive)

\* C2 (Coverage): after the patch is applied the live document has, at every
\* field the desired object sets, the value the desired object gives it.
Coverage ==
    dStage = "applied" => Contains(Marshal(dTo), dLive)

\* a changed scalar and an added nested object both arrive in the live document
CoverageWitness ==
    /\ dStage = "applied"
    /\ dRound = 1
    /\ dFrom.replicas = <<3>>
    /\ dTo.replicas = <<5>>
    /\ dFrom.status = <<>>
    /\ dTo.status = <<[observedGeneration |-> 5]>>
    /\ dLive["replicas"] = JNum(5)
    /\ dLive["status"] = JObj(MarshalStatus(dTo.status[1]))

\* C3 (No-op stability): when every field the desired object sets is in the
\* live object with the same value, the patch returned by Data has no keys.
NoOpStability ==
    (dStage = "computed" /\ Contains(Marshal(dTo), Marshal(dFrom)))
        => dPatch = EmptyDoc

\* C4 (Idempotence): the patch computed against the live document that the
\* first patch produced has no keys, and applying it changes nothing.
Idempotence ==
    /\ (dRound = 2 /\ dStage = "computed") => dPatch = EmptyDoc
    /\ (dRound = 2 /\ dStage = "applied") => dLive = dBefore

\* C5: the returned patch is the raw merge patch without its null entries:
\* it has no key path the raw patch lacks, every value the raw patch sets is
\* in it, and for the example of the specification it is {replicas: 5}.
PatchIsRawWithoutNulls ==
    dStage = "computed" =>
        LET raw == CreateMergePatch(Marshal(dFrom), Marshal(dTo))
        IN /\ Paths(dPatch) \subseteq Paths(raw)
           /\ \A p \in Paths(raw) :
                 IsScalar(ValueAt(raw, p)) =>
                     p \in Paths(dPatch) /\ ValueAt(dPatch, p) = ValueAt(raw, p)
           /\ (dFrom = ExampleLive /\ dTo = ExampleDesired) =>
                 dPatch = [k \in {"replicas"} |-> JNum(5)]

\* ---------------------------------------------------------- the pass
Count(queue, tag) == Cardinality({n \in DOMAIN queue : queue[n] = tag})

\* the post-action that is running, or that returned the error of the pass
Running(tag) ==
    /\ qi \in DOMAIN PostActions
    /\ PostActions[qi] = tag
    /\ pc \in {"replacing", "patching", "done"}

Failed(tag) ==
    /\ Running(tag)
    /\ pc = "done"
    /\ result.kind \notin {"nil", "pending"}

\* C6 (Phase routing): once Apply has run, the queue holds one Replacer and no
\* Applier for Initialization and Deploying, one Applier and no Replacer for
\* Running, neither for any other phase; both are never in the queue.
PhaseRouting ==
    /\ ~(Count(PostActions, "replace") > 0 /\ Count(PostActions, "patch") > 0)
    /\ pc \notin {"configure", "apply"} =>
          /\ phase \in {"Initialization", "Deploying"} =>
                /\ Count(PostActions, "replace") = 1
                /\ Count(PostActions, "patch") = 0
          /\ phase = "Running" =>
                /\ Count(PostActions, "patch") = 1
                /\ Count(PostActions, "replace") = 0
          /\ phase \notin {"Initialization", "Deploying", "Running"} =>
                /\ Count(PostActions, "patch") = 0
                /\ Count(PostActions, "replace") = 0

PhaseRoutingWitness ==
    /\ pc = "generate"
    /\ phase = "Deploying"
    /\ PostActions = <<"other", "replace">>

\* C7 (Partial failure, replace mode): when createOrUpdate fails on the
\* resource at position idx, the calls made are exactly the successful
\* createOrUpdate of the resources before it, in order, and the failing one;
\* the resources before it are in the store as desired; the error returned
\* carries the context "error during replace resource".
ReplacePartialFailure ==
    Failed("replace") =>
        /\ idx \in DOMAIN items
        /\ ops = [j \in 1..idx |->
                    Call("createOrUpdate", items[j].id,
                         IF j < idx THEN "ok" ELSE "Transport")]
        /\ \A j \in 1..(idx - 1) :
              /\ items[j].id \in DOMAIN store
              /\ store[items[j].id] = Marshal(items[j].obj)
        /\ result = [kind |-> "Transport", wrap |-> <<ReplaceTag>>]

\* three resources, the second one fails: the first is applied, the third is
\* never attempted
ReplacePartialFailureWitness ==
    /\ Failed("replace")
    /\ Len(items) = 3
    /\ idx = 2
    /\ Len(ops) = 2
    /\ store[1] = Marshal(items[1].obj)

\* the calls of the iterations of the Applier loop that went through
DoneCalls(n) ==
    [m \in 1..(3 * n) |->
        Call(<<"key", "getLive", "applyPatch">>[((m - 1) % 3) + 1],
             items[((m - 1) \div 3) + 1].id, "ok")]

\* C8 (Partial failure, patch mode): the Applier handles the resources in
\* order, each with key, getLive, applyPatch; the first error ends it, no
\* call is made for a later resource, and the resources handled before hold
\* what the desired objects set.
PatchPartialFailure ==
    (Running("patch") /\ pc # "replacing") =>
        /\ \A j \in 1..(idx - 1) :
              /\ items[j].id \in DOMAIN store
              /\ Contains(Marshal(items[j].obj), store[items[j].id])
        /\ IF pc = "done"
           THEN /\ idx \in DOMAIN items
                /\ result.kind \notin {"nil", "pending"}
                /\ \E fault \in {"Identity", "NotFound", "GetTransport",
                                 "Serialization", "PatchTransport"} :
                      /\ ops = DoneCalls(idx - 1) \o PatchCalls(items[idx].id, fault)
                      /\ result.kind = fault
           ELSE ops = DoneCalls(idx - 1)

\* the second of three resources fails at applyPatch after the first one was
\* patched
PatchPartialFailureWitness ==
    /\ Failed("patch")
    /\ Len(items) = 3
    /\ idx = 2
    /\ result.kind = "PatchTransport"
    /\ Len(ops) = 6
    /\ ops[3] = Call("applyPatch", 1, "ok")

\* C9 (No implicit create): a getLive that returns NotFound is the last call
\* of the Applier, which ends with that error; the Applier never calls
\* createOrUpdate, and the store still has no resource of that identity.
NoImplicitCreate ==
    /\ Running("patch") =>
          \A n \in DOMAIN ops : ops[n].op # "createOrUpdate"
    /\ \A n \in DOMAIN ops :
          (ops[n].op = "getLive" /\ ops[n].res = "NotFound") =>
              /\ n = Len(ops)
              /\ pc = "done"
              /\ result.kind = "NotFound"
              /\ ops[n].id \notin DOMAIN store

NoImplicitCreateWitness ==
    /\ Failed("patch")
    /\ result.kind = "NotFound"
    /\ items[idx].id \notin DOMAIN store
    /\ ops[Len(ops)] = Call("getLive", items[idx].id, "NotFound")

\* C10 as stated: every error a post-action returns carries the context of
\* its operation.
EveryErrorTagged ==
    /\ Failed("replace") => result.wrap = <<ReplaceTag>>
    /\ Failed("patch") => result.wrap = <<PatchTag>>

\* C10 as amended: the error of the Replacer carries "error during replace
\* resource"; in the Applier the error of applyPatch (serialization included)
\* carries "error during patch resource", while the errors of the identity
\* key and of getLive (NotFound included) are returned without a context; a
\* failing call always ends the pass with its error.
ErrorTagging ==
    /\ Failed("replace") => result.wrap = <<ReplaceTag>>
    /\ Failed("patch") =>
          /\ result.kind \in {"Serialization", "PatchTransport"}
                => result.wrap = <<PatchTag>>
          /\ result.kind \in {"Identity", "NotFound", "GetTransport"}
                => result.wrap = <<>>
    /\ \A n \in DOMAIN ops :
          ops[n].res # "ok" =>
              /\ n = Len(ops)
              /\ pc = "done"
              /\ result.kind = ops[n].res

ErrorTaggingWitness ==
    /\ Failed("patch")
    /\ result = Err("GetTransport")
    /\ ops[Len(ops)].op = "getLive"
    /\ ops[Len(ops)].res = "GetTransport"

\* C11: Apply returns nil and only appends at most one entry to the tail of
\* the queue: the entries that were there, the desired set, the phase and
\* the store stay as they are; no call reaches the store before the drain.
ApplyOnlyAppends ==
    [][/\ pc = "apply" =>
            /\ applyErr' = NilErr
            /\ Len(PostActions') \in {Len(PostActions), Len(PostActions) + 1}
            /\ SubSeq(PostActions', 1, Len(PostActions)) = PostActions
            /\ Resources' = Resources
            /\ phase' = phase
            /\ store' = store
            /\ ops' = ops
       /\ pc' \in {"configure", "apply", "generate"} => ops' = <<>>]_vars

ApplyOnlyAppendsWitness ==
    /\ pc = "generate"
    /\ phase = "Running"
    /\ PostActions = <<"other", "patch">>
    /\ applyErr = NilErr
    /\ Resources = atApply
    /\ DOMAIN store # {}
    /\ ops = <<>>

\* C12: Configure answers true exactly for Initialization, Deploying and
\* Running, false for any other phase, and returns no error; Apply registers
\* a post-action exactly in the phases for which Configure answered true.
ConfigureMatchesApply ==
    /\ pc # "configure" =>
          /\ applicable = (phase \in {"Initialization", "Deploying", "Running"})
          /\ configureErr = NilErr
    /\ pc \notin {"configure", "apply"} =>
          Count(PostActions, "replace") + Count(PostActions, "patch")
              = (IF applicable THEN 1 ELSE 0)

ConfigureMatchesApplyWitness ==
    /\ pc = "generate"
    /\ phase = "Unrecognised"
    /\ ~applicable
    /\ configureErr = NilErr
    /\ PostActions = <<"other">>

\* C13: the post-action works on the desired set as it is when the queue is
\* drained: the set it goes through is the one env.Resources holds when it
\* is called, and it stays that set while the post-action runs.
SetReadAtDrain ==
    [][/\ (pc = "drain" /\ pc' \in {"replacing", "patching"}) =>
             items' = Resources
       /\ pc' \in {"replacing", "patching"} => items' = Resources'
       /\ pc \in {"replacing", "patching"} => items' = items]_vars

\* a resource added after Apply returned has been replaced
SetReadAtDrainWitness ==
    /\ pc = "replacing"
    /\ Len(atApply) = 2
    /\ Len(items) = 3
    /\ idx = 4
    /\ 3 \in DOMAIN store
    /\ store[3] = Marshal(Resources[3].obj)
    /\ ops[3] = Call("createOrUpdate", 3, "ok")

\* C14: Data leaves s.from and obj as they were, and the live document
\* changes only when the patch is applied.
DiffIsReadOnly ==
    [][/\ (dStage = "fetched" /\ dStage' = "computed") =>
             /\ dFrom' = dFrom
             /\ dTo' = dTo
             /\ dLive' = dLive
       /\ dLive' # dLive => (dStage = "computed" /\ dStage' = "applied")]_vars

\* the fold changed the copy: it is not the desired object any more
DiffIsReadOnlyWitness ==
    /\ dStage = "computed"
    /\ dRound = 1
    /\ DataObjects(dFrom, dTo)["out"] # dTo
    /\ DataObjects(dFrom, dTo)["obj"] = dTo
    /\ dLive = Marshal(dFrom)

\* the calls of one execution: applyPatch follows the getLive of the same
\* identity, and no identity is fetched or patched twice
CallsAreFresh ==
    /\ \A n \in DOMAIN ops :
          ops[n].op = "applyPatch" =>
              /\ n > 1
              /\ ops[n - 1] = Call("getLive", ops[n].id, "ok")
    /\ \A n, m \in DOMAIN ops :
          (n # m /\ ops[n].op = ops[m].op
                 /\ ops[n].op \in {"getLive", "applyPatch"})
              => ops[n].id # ops[m].id

\* C15: in one execution of the Applier every applyPatch comes right after
\* the getLive of the same identity, the patch is computed against the live
\* document of that identity as it is then, and no identity gets more than
\* one getLive or one applyPatch.
FreshFetchNoRetry ==
    [][/\ (pc = "patching" /\ idx' = idx + 1) =>
             store' = [store EXCEPT ![items[idx].id] =
                          MergePatch(@, Data(Decode(@), items[idx].obj).data)]
       /\ CallsAreFresh']_vars

\* second pass: two resources with different live documents were patched
FreshFetchNoRetryWitness ==
    /\ pass = 2
    /\ pc = "patching"
    /\ idx = 3
    /\ Len(ops) = 6
    /\ ops[5] = Call("getLive", 2, "ok")
    /\ ops[6] = Call("applyPatch", 2, "ok")
    /\ Decode(store[1]) # Decode(store[2])

\* the store after an Applier that went through all of the set
PatchedAll(st, set) ==
    [k \in DOMAIN st |->
        IF \E j \in DOMAIN set : set[j].id = k
        THEN LET j == CHOOSE j \in DOMAIN set : set[j].id = k
             IN MergePatch(st[k], Data(Decode(st[k]), set[j].obj).data)
        ELSE st[k]]

\* a pass in Running over the same set as the previous pass in Running has
\* ended without error
RepeatedRunningPass ==
    /\ pc = "done"
    /\ result = NilErr
    /\ phase = "Running"
    /\ prev.phase = "Running"
    /\ prev.items = items

\* C16: a pass in Running invoked again after one that ended without error
\* leaves every live document as it was; invoked again after one that
\* failed, and ending without error, it leaves the store as one pass without
\* error would have left it.
PassIdempotence ==
    RepeatedRunningPass =>
        /\ prev.result = NilErr => store = prev.end
        /\ prev.result.kind \notin {"nil", "pending"} =>
              store = PatchedAll(prev.start, items)

\* the first pass failed at the second resource after it patched the first
PassIdempotenceWitness ==
    /\ RepeatedRunningPass
    /\ pass = 2
    /\ Len(items) = 2
    /\ prev.result.kind = "PatchTransport"
    /\ prev.end # prev.start
    /\ store # prev.end

\* C17: a step of the Applier creates no resource and deletes none, and
\* leaves every live document whose identity is not in the desired set as
\* it was.
ApplierStoreFrame ==
    [][pc = "patching" =>
          /\ DOMAIN store' = DOMAIN store
          /\ \A k \in DOMAIN store :
                (\A j \in DOMAIN items : items[j].id # k)
                    => store'[k] = store[k]]_vars

\* the Applier patched the one desired resource; another identity is in the
\* store and one is missing
ApplierStoreFrameWitness ==
    /\ pass = 1
    /\ pc = "patching"
    /\ Len(items) = 1
    /\ idx = 2
    /\ DOMAIN store = {1, 3}
    /\ store[1] # LiveDocOf(1)
    /\ store[3] = LiveDocOf(3)

====
